---- MODULE Spec2Model ----
(***************************************************************************)
(* Overload-protection layer of the go-optimization-guide networking       *)
(* chapter (src/unnamed/part_005): the circuit breaker with its sliding    *)
(* failure window, passive and active load shedding, and the dynamic       *)
(* buffer that resizes under backpressure.                                 *)
(*                                                                         *)
(* Every caller goroutine runs  if breaker.Allow() { ...; Report(ok) }     *)
(* (lines 231-234).  Each atomic load, store or add of the Go code is one  *)
(* step of the caller that executes it, so that every interleaving of      *)
(* concurrent callers and of the window ticker is a behaviour of Spec.     *)
(* SpecSeq restricts the scheduling to one call at a time (each Allow,     *)
(* Report and Tick runs to completion before the next one starts; calls    *)
(* admitted by Allow may still be outstanding while others are made).      *)
(* SpecSeqFair adds fair scheduling to SpecSeq, SpecUnmatched adds callers *)
(* that report calls Allow did not permit, SpecHot runs the request path   *)
(* of breaker and shedder, SpecShed the shedder and SpecBuf the buffer.    *)
(*                                                                         *)
(* The counters are int32 in the source; every value reached here stays    *)
(* far inside that range, so no wrap-around is modelled.                   *)
(***************************************************************************)
EXTENDS Integers, Sequences, FiniteSets, TLC

\* ---------------------------------------------------------------- bounds
NProcs == 2
WindowSize == 2
MaxHalfOpen == 2
errorThresh == 2
successThresh == 2
resetTimeout == 1
\* load shedding: capacity of the requests channel, connections that
\* arrive, levels of CPU load, the shedder's threshold
RequestsCap == 2
MaxReqs == 4
MaxCPULoad == 2
maxCPU == 1
\* dynamic buffer: channels ever made, items the producer enqueues, the
\* size limits, the grow and shrink thresholds in percent of the capacity
MaxChans == 3
MaxItems == 5
minSize == 1
maxSize == 4
growPct == 50
shrinkPct == 25

Procs == 1..NProcs

\* ----------------------------------------------------------- CircuitState
StateClosed == 0
StateOpen == 1
StateHalfOpen == 2

VARIABLES
    \* CircuitBreaker fields
    state, successes, inFlightTrials, halfOpenMaxConcurrent,
    \* cb.lastOpen, held as the reading time.Since(cb.lastOpen) gives at the
    \* current instant, in tick intervals, counted up to resetTimeout (the
    \* only value it is compared with)
    sinceLastOpen,
    \* slidingWindow fields
    buckets, idx,
    \* per caller: position; which function runs Allow's body; the outcome
    \* passed to Report; the state in which its outstanding call was admitted
    pc, ctx, outcome, admitted,
    \* scheduling: TRUE when calls are made one at a time
    serial,
    \* history: time elapsed since the latest store of StateOpen, counted
    \* up to resetTimeout; per caller, whether its call of Allow began with
    \* the breaker Open for less than resetTimeout and has stayed so
    sinceOpened, fresh,
    \* history: the failures recorded in the current tick interval and in
    \* each of the WindowSize - 1 intervals before it, latest first
    recent,
    \* history kept in serial runs: the latest call with the breaker as it
    \* was when the call was made, Report(true) calls made in HalfOpen since
    \* it was entered
    hist, okStreak,
    \* load shedding: the requests channel, the global shedding flag, the
    \* monitor's position and its latest CPU sample, the next connection
    requests, shedding, mon, cpu, nextReq,
    \* history: the latest acceptance decision; whether the latest sample
    \* whose flag has been stored was above maxCPU
    accepted, sampledOver,
    \* DynamicBuffer: every channel made so far with its capacity and its
    \* contents, db.ch, the holder of db.mu
    chans, dbch, mu,
    \* the producer: position, its local ch, the next item, whether the
    \* deadline of the call in progress has elapsed
    epc, ech, nextItem, deadline,
    \* the consumer: position, the channel its select waits on, what its
    \* latest Dequeue returned, the items received so far
    dpc, dch, ret, delivered,
    \* the monitor: position, newCh, the item received from oldCh and not
    \* yet sent to newCh
    mpc, newCh, hand,
    \* history: the capacity and the length the monitor's latest tick read
    \* and the size of the channel it made (0 when it made none); whether
    \* the owner of the buffer has asked for shutdown
    lastTick, stopped

vars == << state, sinceLastOpen, successes, inFlightTrials,
           halfOpenMaxConcurrent, buckets, idx, pc, ctx, outcome,
           admitted, serial, sinceOpened, fresh, recent, hist, okStreak,
           requests, shedding, mon, cpu, nextReq, accepted, sampledOver,
           chans, dbch, mu, epc, ech, nextItem, deadline, dpc, dch, ret,
           delivered, mpc, newCh, hand, lastTick, stopped >>

cbVars == << state, sinceLastOpen, successes, inFlightTrials >>
cfgVars == << halfOpenMaxConcurrent, serial >>
winVars == << buckets, idx >>
procVars == << pc, ctx, outcome, admitted >>
breakerVars == << cbVars, cfgVars, winVars, procVars, sinceOpened, fresh,
                 recent, hist, okStreak >>
shedVars == << requests, shedding, mon, cpu, nextReq, accepted, sampledOver >>
prodVars == << epc, ech, nextItem, deadline >>
consVars == << dpc, dch, ret, delivered >>
monVars == << mpc, newCh, hand >>
bufVars == << chans, dbch, mu, prodVars, consVars, monVars, lastTick,
             stopped >>

\* time.Since() of the zero time.Time is never below resetTimeout.
SinceZeroTime == resetTimeout

\* time.Since(t) one tick interval later.
Later(since) == IF since < resetTimeout THEN since + 1 ELSE since

\* ------------------------------------------------------------ slidingWindow
RECURSIVE SumSeq(_)
SumSeq(s) == IF s = << >> THEN 0 ELSE Head(s) + SumSeq(Tail(s))

newWindow(n) == [i \in 1..n |-> 0]

Sum == SumSeq(buckets)

IncBuckets == [buckets EXCEPT ![idx + 1] = @ + 1]

\* Tick that zeroes the current bucket without moving on.
NextIdxStuck == idx

NextIdx == (idx + 1) % WindowSize

\* Tick without the reset of the bucket it moves to.
TickBucketsKept == buckets

TickBuckets == [buckets EXCEPT ![NextIdx + 1] = 0]

\* -------------------------------------------------------------- conditions
\* The timeout taken to have elapsed only after more than resetTimeout.
TimeoutElapsedStrict(since) == since > resetTimeout

TimeoutElapsed(since) == since >= resetTimeout

TrialsFull == inFlightTrials >= halfOpenMaxConcurrent

\* The breaker opening only above the threshold.
ThresholdReachedStrict == Sum > errorThresh

ThresholdReached == Sum >= errorThresh

SuccessesReached(n) == n >= successThresh

\* cb.lastOpen is read without synchronisation (line 162) while Report
\* writes it (lines 201, 212): a read that races with a pending write sees
\* the old value or the one being written.
LastOpenSeen(p) ==
    {sinceLastOpen} \cup
    {0 : q \in {r \in Procs \ {p} : pc[r] \in {"r_lastopen", "r_relastopen"}}}

\* ------------------------------------------------------------- scheduling
AllowBody == {"a_open", "a_half_store", "a_succ_store", "a_infl_store",
              "a_half", "a_add"}

InBody(p) == pc[p] \notin {"idle", "calling"}

Quiescent == \A p \in Procs : ~InBody(p)

MayRun(p) == serial => \A q \in Procs \ {p} : ~InBody(q)

\* ----------------------------------------------------------------- history
Snapshot == [state |-> state, sinceLastOpen |-> sinceLastOpen, successes |-> successes,
             inFlightTrials |-> inFlightTrials, buckets |-> buckets,
             idx |-> idx]

NoHist == [op |-> "none", proc |-> 0, success |-> TRUE, ret |-> "none",
           pre |-> [state |-> StateClosed, sinceLastOpen |-> SinceZeroTime,
                    successes |-> 0, inFlightTrials |-> 0,
                    buckets |-> newWindow(WindowSize), idx |-> 0]]

HistEnter(p, c, success) ==
    IF serial
    THEN [op |-> c, proc |-> p, success |-> success, ret |-> "pending",
          pre |-> Snapshot]
    ELSE hist

\* Allow's return value, or that Report went on after its call of Allow.
HistStep(to, val) ==
    IF serial /\ (to \in {"idle", "calling"} \/ hist.op = "report")
              /\ hist.ret = "pending"
    THEN [hist EXCEPT !.ret = IF val THEN "true" ELSE "false"]
    ELSE hist

StreakEnter(success) ==
    IF ~serial THEN okStreak
    ELSE IF ~success THEN 0
    ELSE IF state = StateHalfOpen /\ okStreak < successThresh
    THEN okStreak + 1 ELSE okStreak

\* ------------------------------------------------------------ control flow
\* Where Allow's return leads: back to the caller (line 231: the call is
\* made, or given up) or into the body of Report (line 186: go on, or return).
AfterAllow(c, val) ==
    IF val THEN (IF c = "allow" THEN "calling" ELSE "r_switch") ELSE "idle"

\* The locals of caller p after a step that takes it to `to`; a local that
\* is dead at `to` is put back to its initial value.
SetLocals(p, to, c, success, adm) ==
    /\ pc' = [pc EXCEPT ![p] = to]
    /\ ctx' = [ctx EXCEPT ![p] = IF to \in AllowBody THEN c ELSE "allow"]
    /\ outcome' = [outcome EXCEPT ![p] =
                      IF to \in AllowBody \cup {"r_switch"} THEN success ELSE TRUE]
    /\ admitted' = [admitted EXCEPT ![p] =
                      IF to = "calling" THEN adm ELSE StateClosed]
    /\ UNCHANGED << shedVars, bufVars >>

OpenPath == {"a_open", "a_half_store", "a_succ_store", "a_infl_store"}

NoneFresh == [q \in Procs |-> FALSE]

StillFresh(p, to) == [fresh EXCEPT ![p] = @ /\ to \in OpenPath]

Goto(p, to) ==
    /\ SetLocals(p, to, ctx[p], outcome[p], StateClosed)
    /\ fresh' = StillFresh(p, to)

\* Allow returns val, having admitted the call in state adm.
AllowReturns(p, val, adm) ==
    /\ SetLocals(p, AfterAllow(ctx[p], val), ctx[p], outcome[p], adm)
    /\ fresh' = StillFresh(p, AfterAllow(ctx[p], val))
    /\ hist' = HistStep(AfterAllow(ctx[p], val), val)

\* Allow's switch on the loaded state (lines 158-176), run for function c.
AllowSwitch(p, c, success) ==
    LET to == IF state = StateClosed THEN AfterAllow(c, TRUE)
              ELSE IF state = StateOpen THEN "a_open" ELSE "a_half"
        h == HistEnter(p, c, success)
    IN /\ SetLocals(p, to, c, success, StateClosed)
       /\ fresh' = [fresh EXCEPT ![p] =
                       to = "a_open" /\ sinceOpened < resetTimeout]
       /\ hist' = IF serial /\ state = StateClosed
                  THEN [h EXCEPT !.ret = "true"] ELSE h

\* ------------------------------------------------------------ load shedding
\* The send case of a select on the buffered channel is ready.
HasRoomAtCap(q) == Len(q) <= RequestsCap

HasRoom(q) == Len(q) < RequestsCap

\* select { case requests <- req: ... default: conn.Close() }
TrySend(q, req) == IF HasRoom(q) THEN Append(q, req) ELSE q

\* The shedder going into shedding mode at the threshold already.
ShouldShedAtThreshold(load) == load >= maxCPU

ShouldShed(load) == load > maxCPU

NoDecision == [mode |-> "none", req |-> 0, ret |-> FALSE, pre |-> << >>,
               post |-> << >>, over |-> FALSE]

\* ------------------------------------------------------------ DynamicBuffer
ChanIds == 1..MaxChans

\* make(chan Request, n)
MakeChan(n) == [cap |-> n, buf |-> << >>]

NoTick == [cap |-> 0, length |-> 0, size |-> 0]
NoChan == [cap |-> 0, buf |-> << >>]

Min(a, b) == IF a < b THEN a ELSE b

Max(a, b) == IF a > b THEN a ELSE b

\* A send on channel c can proceed; a receive from it can proceed.
CanSend(c) == Len(chans[c].buf) < chans[c].cap

CanRecv(c) == chans[c].buf # << >>

Send(c, item) == [chans EXCEPT ![c].buf = Append(@, item)]

\* A receive that leaves the item in the channel.
RecvKeeps(c) == chans

Recv(c) == [chans EXCEPT ![c].buf = Tail(@)]

\* usage > db.growPct and usage < db.shrinkPct for usage = length / cap,
\* the thresholds being given in percent.
\* A monitor that grows at the threshold itself.
UsageAtOrAbove(length, cap, pct) == length * 100 >= pct * cap

\* A monitor that shrinks at the threshold itself.
UsageAtOrBelow(length, cap, pct) == length * 100 <= pct * cap

UsageAbove(length, cap, pct) == length * 100 > pct * cap

UsageBelow(length, cap, pct) == length * 100 < pct * cap

\* Doubling with no ceiling.
GrowSizeUncapped(cap) == cap * 2

GrowSize(cap) == Min(maxSize, cap * 2)

\* A monitor that shrinks straight to the smallest size.
ShrinkSizeToMin(cap) == minSize

ShrinkSize(cap) == Max(minSize, cap \div 2)

\* newSize as the monitor computes it (lines 510-517); 0 for no resize.
NewSize(length, cap) ==
    IF UsageAbove(length, cap, growPct) /\ cap < maxSize THEN GrowSize(cap)
    ELSE IF UsageBelow(length, cap, shrinkPct) /\ cap > minSize THEN ShrinkSize(cap)
    ELSE 0

\* -------------------------------------------------------------------- Init
InitWith(s) ==
    /\ serial = s
    /\ state = StateClosed
    /\ sinceLastOpen = SinceZeroTime
    /\ successes = 0
    /\ inFlightTrials = 0
    /\ halfOpenMaxConcurrent \in 1..MaxHalfOpen
    /\ buckets = newWindow(WindowSize)
    /\ idx = 0
    /\ pc = [p \in Procs |-> "idle"]
    /\ ctx = [p \in Procs |-> "allow"]
    /\ outcome = [p \in Procs |-> TRUE]
    /\ admitted = [p \in Procs |-> StateClosed]
    /\ sinceOpened = SinceZeroTime
    /\ fresh = NoneFresh
    /\ hist = NoHist
    /\ okStreak = 0
    /\ recent = newWindow(WindowSize)

\* The requests channel is empty, the shedding flag 0, the monitor waits
\* for its ticker.
InitShedder ==
    /\ requests = << >>
    /\ shedding = 0
    /\ mon = "wait"
    /\ cpu = 0
    /\ nextReq = 1
    /\ accepted = NoDecision
    /\ sampledOver = FALSE

\* NewDynamicBuffer(initial, minSize, maxSize, growPct, shrinkPct).
NewDynamicBuffer(initial) ==
    /\ chans = [c \in ChanIds |-> IF c = 1 THEN MakeChan(initial) ELSE NoChan]
    /\ dbch = 1
    /\ mu = "free"
    /\ epc = "idle"
    /\ ech = 0
    /\ nextItem = 1
    /\ deadline = FALSE
    /\ dpc = "idle"
    /\ dch = 0
    /\ ret = [item |-> 0, ok |-> FALSE]
    /\ delivered = << >>
    /\ mpc = "wait"
    /\ newCh = 0
    /\ hand = 0
    /\ lastTick = NoTick
    /\ stopped = FALSE

Init == InitWith(FALSE) /\ InitShedder /\ NewDynamicBuffer(minSize)

InitSeq == InitWith(TRUE) /\ InitShedder /\ NewDynamicBuffer(minSize)

InitShed ==
    /\ InitWith(FALSE) /\ halfOpenMaxConcurrent = 1
    /\ InitShedder
    /\ NewDynamicBuffer(minSize)

InitBuf ==
    /\ InitWith(FALSE) /\ halfOpenMaxConcurrent = 1
    /\ InitShedder
    /\ \E initial \in minSize..maxSize : NewDynamicBuffer(initial)

\* ------------------------------------------------------------------- clock
\* One tick interval passes: every reading of the clock grows by one
\* interval and the ticker goroutine of NewCircuitBreaker (lines 144-149)
\* runs slidingWindow.Tick, which holds the window's mutex throughout.
Tick ==
    /\ serial => Quiescent
    /\ sinceLastOpen' = Later(sinceLastOpen)
    /\ sinceOpened' = Later(sinceOpened)
    /\ fresh' = IF Later(sinceOpened) < resetTimeout THEN fresh ELSE NoneFresh
    /\ idx' = NextIdx
    /\ buckets' = TickBuckets
    /\ hist' = NoHist
    /\ recent' = << 0 >> \o SubSeq(recent, 1, WindowSize - 1)
    /\ UNCHANGED << state, successes, inFlightTrials, cfgVars, procVars,
                    okStreak, shedVars, bufVars >>

\* ------------------------------------------------------------------- Allow
AllowEnter(p) ==
    /\ MayRun(p)
    /\ pc[p] = "idle"
    /\ AllowSwitch(p, "allow", TRUE)
    /\ UNCHANGED << cbVars, cfgVars, winVars, sinceOpened, okStreak,
                    recent >>

AllowOpenCheck(p) ==
    /\ MayRun(p)
    /\ pc[p] = "a_open"
    /\ \E seen \in LastOpenSeen(p) :
          IF TimeoutElapsed(seen)
          THEN Goto(p, "a_half_store") /\ UNCHANGED hist
          ELSE AllowReturns(p, FALSE, StateClosed)
    /\ UNCHANGED << cbVars, cfgVars, winVars, sinceOpened, okStreak,
                    recent >>

AllowStoreHalfOpen(p) ==
    /\ MayRun(p)
    /\ pc[p] = "a_half_store"
    /\ state' = StateHalfOpen
    /\ okStreak' = 0
    /\ SetLocals(p, "a_succ_store", ctx[p], outcome[p], StateClosed)
    /\ fresh' = NoneFresh
    /\ UNCHANGED << sinceLastOpen, successes, inFlightTrials, cfgVars, winVars,
                    sinceOpened, hist, recent >>

AllowResetSuccesses(p) ==
    /\ MayRun(p)
    /\ pc[p] = "a_succ_store"
    /\ successes' = 0
    /\ Goto(p, "a_infl_store")
    /\ UNCHANGED << state, sinceLastOpen, inFlightTrials, cfgVars, winVars,
                    sinceOpened, hist, okStreak, recent >>

AllowResetInFlight(p) ==
    /\ MayRun(p)
    /\ pc[p] = "a_infl_store"
    /\ inFlightTrials' = 0
    /\ AllowReturns(p, TRUE, StateOpen)
    /\ UNCHANGED << state, sinceLastOpen, successes, cfgVars, winVars,
                    sinceOpened, okStreak, recent >>

\* An Allow that waits in HalfOpen for a trial slot to come free.
AllowTrialCheckWaits(p) ==
    /\ MayRun(p)
    /\ pc[p] = "a_half"
    /\ ~TrialsFull
    /\ Goto(p, "a_add") /\ UNCHANGED hist
    /\ UNCHANGED << cbVars, cfgVars, winVars, sinceOpened, okStreak,
                    recent >>

AllowTrialCheck(p) ==
    /\ MayRun(p)
    /\ pc[p] = "a_half"
    /\ IF TrialsFull
       THEN AllowReturns(p, FALSE, StateClosed)
       ELSE Goto(p, "a_add") /\ UNCHANGED hist
    /\ UNCHANGED << cbVars, cfgVars, winVars, sinceOpened, okStreak,
                    recent >>

AllowTrialAdd(p) ==
    /\ MayRun(p)
    /\ pc[p] = "a_add"
    /\ inFlightTrials' = inFlightTrials + 1
    /\ AllowReturns(p, TRUE, StateHalfOpen)
    /\ UNCHANGED << state, sinceLastOpen, successes, cfgVars, winVars,
                    sinceOpened, okStreak, recent >>

\* ------------------------------------------------------------------ Report
ReportEnter(p, success) ==
    /\ MayRun(p)
    /\ pc[p] = "calling"
    /\ AllowSwitch(p, "report", success)
    /\ okStreak' = StreakEnter(success)
    /\ UNCHANGED << cbVars, cfgVars, winVars, sinceOpened,
                    recent >>

\* Report called by a caller whose call Allow did not permit: a caller error
\* the code cannot tell from a Report that follows Allow() == true, since
\* Report takes the outcome alone (line 185).
ReportUnmatched(p, success) ==
    /\ MayRun(p)
    /\ pc[p] = "idle"
    /\ AllowSwitch(p, "unmatched", success)
    /\ UNCHANGED << cbVars, cfgVars, winVars, sinceOpened, okStreak,
                    recent >>

\* Report counting a failure in Closed whatever the outcome.
ReportBranchAnyOutcome(p) ==
    IF state = StateClosed
    THEN "r_inc"
    ELSE IF state = StateHalfOpen
    THEN (IF outcome[p] THEN "r_addsucc" ELSE "r_reopen")
    ELSE "r_defer"

ReportBranch(p) ==
    IF state = StateClosed
    THEN (IF outcome[p] THEN "r_defer" ELSE "r_inc")
    ELSE IF state = StateHalfOpen
    THEN (IF outcome[p] THEN "r_addsucc" ELSE "r_reopen")
    ELSE "r_defer"

ReportSwitch(p) ==
    /\ MayRun(p)
    /\ pc[p] = "r_switch"
    /\ Goto(p, ReportBranch(p))
    /\ UNCHANGED << cbVars, cfgVars, winVars, sinceOpened, hist,
                    okStreak, recent >>

ReportInc(p) ==
    /\ MayRun(p)
    /\ pc[p] = "r_inc"
    /\ buckets' = IncBuckets
    /\ recent' = [recent EXCEPT ![1] = @ + 1]
    /\ Goto(p, "r_sum")
    /\ UNCHANGED << cbVars, cfgVars, idx, sinceOpened, hist,
                    okStreak >>

ReportSum(p) ==
    /\ MayRun(p)
    /\ pc[p] = "r_sum"
    /\ Goto(p, IF ThresholdReached THEN "r_open" ELSE "r_defer")
    /\ UNCHANGED << cbVars, cfgVars, winVars, sinceOpened, hist,
                    okStreak, recent >>

ReportOpen(p) ==
    /\ MayRun(p)
    /\ pc[p] = "r_open"
    /\ state' = StateOpen
    /\ sinceOpened' = 0
    /\ Goto(p, "r_lastopen")
    /\ UNCHANGED << sinceLastOpen, successes, inFlightTrials, cfgVars, winVars,
                    hist, okStreak, recent >>

ReportLastOpen(p) ==
    /\ MayRun(p)
    /\ pc[p] = "r_lastopen"
    /\ sinceLastOpen' = 0
    /\ Goto(p, "r_defer")
    /\ UNCHANGED << state, successes, inFlightTrials, cfgVars, winVars,
                    sinceOpened, hist, okStreak, recent >>

ReportAddSuccess(p) ==
    /\ MayRun(p)
    /\ pc[p] = "r_addsucc"
    /\ successes' = successes + 1
    /\ Goto(p, IF SuccessesReached(successes + 1) THEN "r_close" ELSE "r_defer")
    /\ UNCHANGED << state, sinceLastOpen, inFlightTrials, cfgVars, winVars,
                    sinceOpened, hist, okStreak, recent >>

ReportClose(p) ==
    /\ MayRun(p)
    /\ pc[p] = "r_close"
    /\ state' = StateClosed
    /\ SetLocals(p, "r_defer", ctx[p], outcome[p], StateClosed)
    /\ fresh' = NoneFresh
    /\ UNCHANGED << sinceLastOpen, successes, inFlightTrials, cfgVars, winVars,
                    sinceOpened, hist, okStreak, recent >>

ReportReopen(p) ==
    /\ MayRun(p)
    /\ pc[p] = "r_reopen"
    /\ state' = StateOpen
    /\ sinceOpened' = 0
    /\ Goto(p, "r_relastopen")
    /\ UNCHANGED << sinceLastOpen, successes, inFlightTrials, cfgVars, winVars,
                    hist, okStreak, recent >>

ReportReLastOpen(p) ==
    /\ MayRun(p)
    /\ pc[p] = "r_relastopen"
    /\ sinceLastOpen' = 0
    /\ Goto(p, "r_defer")
    /\ UNCHANGED << state, successes, inFlightTrials, cfgVars, winVars,
                    sinceOpened, hist, okStreak, recent >>

\* The deferred function of Report (lines 189-193).
ReportDefer(p) ==
    /\ MayRun(p)
    /\ pc[p] = "r_defer"
    /\ Goto(p, IF state = StateHalfOpen THEN "r_dec" ELSE "idle")
    /\ UNCHANGED << cbVars, cfgVars, winVars, sinceOpened, hist,
                    okStreak, recent >>

ReportDec(p) ==
    /\ MayRun(p)
    /\ pc[p] = "r_dec"
    /\ inFlightTrials' = inFlightTrials - 1
    /\ Goto(p, "idle")
    /\ UNCHANGED << state, sinceLastOpen, successes, cfgVars, winVars,
                    sinceOpened, hist, okStreak, recent >>

\* ------------------------------------------------------------ specification
Next ==
    \/ Tick
    \/ \E p \in Procs :
          \/ AllowEnter(p)
          \/ AllowOpenCheck(p)
          \/ AllowStoreHalfOpen(p)
          \/ AllowResetSuccesses(p)
          \/ AllowResetInFlight(p)
          \/ AllowTrialCheck(p)
          \/ AllowTrialAdd(p)
          \/ \E success \in BOOLEAN : ReportEnter(p, success)
          \/ ReportSwitch(p)
          \/ ReportInc(p)
          \/ ReportSum(p)
          \/ ReportOpen(p)
          \/ ReportLastOpen(p)
          \/ ReportAddSuccess(p)
          \/ ReportClose(p)
          \/ ReportReopen(p)
          \/ ReportReLastOpen(p)
          \/ ReportDefer(p)
          \/ ReportDec(p)

\* The steps of caller p: its calls of Allow and Report and their steps.
CallerStep(p) ==
    \/ AllowEnter(p)
    \/ AllowOpenCheck(p)
    \/ AllowStoreHalfOpen(p)
    \/ AllowResetSuccesses(p)
    \/ AllowResetInFlight(p)
    \/ AllowTrialCheck(p)
    \/ AllowTrialAdd(p)
    \/ \E success \in BOOLEAN : ReportEnter(p, success)
    \/ ReportSwitch(p)
    \/ ReportInc(p)
    \/ ReportSum(p)
    \/ ReportOpen(p)
    \/ ReportLastOpen(p)
    \/ ReportAddSuccess(p)
    \/ ReportClose(p)
    \/ ReportReopen(p)
    \/ ReportReLastOpen(p)
    \/ ReportDefer(p)
    \/ ReportDec(p)

Spec == Init /\ [][Next]_vars

SpecSeq == InitSeq /\ [][Next]_vars

\* Calls made one at a time by callers that also report calls Allow did not
\* permit.
NextUnmatched ==
    \/ Next
    \/ \E p \in Procs, success \in BOOLEAN : ReportUnmatched(p, success)

SpecUnmatched == InitSeq /\ [][NextUnmatched]_vars

\* Calls made one at a time, where the ticker keeps firing and every caller
\* keeps taking its steps: a goroutine that can run is scheduled, every call
\* Allow permits is reported, and callers keep calling.
SpecSeqFair ==
    /\ InitSeq
    /\ [][Next]_vars
    /\ SF_vars(Tick)
    /\ \A p \in Procs : SF_vars(CallerStep(p))

\* ------------------------------------------------------ passive shedding
\* One turn of acceptLoop (lines 266-280): the connection is queued if the
\* channel has room and closed otherwise.
AcceptLoop ==
    /\ nextReq <= MaxReqs
    /\ requests' = TrySend(requests, nextReq)
    /\ accepted' = [mode |-> "passive", req |-> nextReq,
                    ret |-> HasRoom(requests), pre |-> requests,
                    post |-> TrySend(requests, nextReq), over |-> sampledOver]
    /\ nextReq' = nextReq + 1
    /\ UNCHANGED << breakerVars, bufVars, shedding, mon, cpu, sampledOver >>

\* A worker receives the oldest request from the channel.
Receive ==
    /\ requests # << >>
    /\ requests' = Tail(requests)
    /\ UNCHANGED << breakerVars, bufVars, shedding, mon, cpu, nextReq, accepted,
                    sampledOver >>

\* ------------------------------------------------------- active shedding
\* The ticker of startMonitor fires and ShouldShed reads the CPU load
\* (lines 322-323, 315).
MonitorSample ==
    /\ mon = "wait"
    /\ cpu' \in 0..MaxCPULoad
    /\ mon' = "store"
    /\ UNCHANGED << breakerVars, bufVars, requests, shedding, nextReq, accepted,
                    sampledOver >>

\* The monitor stores the flag for its sample (lines 323-327).
MonitorStore ==
    /\ mon = "store"
    /\ shedding' = IF ShouldShed(cpu) THEN 1 ELSE 0
    /\ sampledOver' = (cpu > maxCPU)
    /\ mon' = "wait"
    /\ UNCHANGED << breakerVars, bufVars, requests, cpu, nextReq, accepted >>

\* Request acceptance under active shedding (lines 332-336): one atomic
\* load of the flag; the connection is closed, or handed to the queue.
AcceptActive ==
    /\ nextReq <= MaxReqs
    /\ requests' = IF shedding = 1 THEN requests ELSE TrySend(requests, nextReq)
    /\ accepted' = [mode |-> "active", req |-> nextReq,
                    ret |-> shedding # 1, pre |-> requests,
                    post |-> IF shedding = 1 THEN requests
                             ELSE TrySend(requests, nextReq),
                    over |-> sampledOver]
    /\ nextReq' = nextReq + 1
    /\ UNCHANGED << breakerVars, bufVars, shedding, mon, cpu, sampledOver >>

NextShed ==
    \/ AcceptLoop
    \/ Receive
    \/ MonitorSample
    \/ MonitorStore
    \/ AcceptActive

SpecShed == InitShed /\ [][NextShed]_vars

\* The request path: callers of the breaker running concurrently beside its
\* ticker, and the acceptance of connections beside the shedder's monitor.
\* The breaker and the shedder share no variable, so a step of one neither
\* enables nor disables a step of the other; each is run while the other
\* is as constructed.
ShedderAtRest == InitShedder

BreakerAtRest == InitWith(FALSE)

NextHot ==
    \/ ShedderAtRest /\ Tick
    \/ \E p \in Procs :
          \/ ShedderAtRest /\ AllowEnter(p)
          \/ ShedderAtRest /\ AllowOpenCheck(p)
          \/ ShedderAtRest /\ AllowStoreHalfOpen(p)
          \/ ShedderAtRest /\ AllowResetSuccesses(p)
          \/ ShedderAtRest /\ AllowResetInFlight(p)
          \/ ShedderAtRest /\ AllowTrialCheck(p)
          \/ ShedderAtRest /\ AllowTrialAdd(p)
          \/ ShedderAtRest /\ (\E success \in BOOLEAN : ReportEnter(p, success))
          \/ ShedderAtRest /\ ReportSwitch(p)
          \/ ShedderAtRest /\ ReportInc(p)
          \/ ShedderAtRest /\ ReportSum(p)
          \/ ShedderAtRest /\ ReportOpen(p)
          \/ ShedderAtRest /\ ReportLastOpen(p)
          \/ ShedderAtRest /\ ReportAddSuccess(p)
          \/ ShedderAtRest /\ ReportClose(p)
          \/ ShedderAtRest /\ ReportReopen(p)
          \/ ShedderAtRest /\ ReportReLastOpen(p)
          \/ ShedderAtRest /\ ReportDefer(p)
          \/ ShedderAtRest /\ ReportDec(p)
    \/ BreakerAtRest /\ AcceptLoop
    \/ BreakerAtRest /\ Receive
    \/ BreakerAtRest /\ MonitorSample
    \/ BreakerAtRest /\ MonitorStore
    \/ BreakerAtRest /\ AcceptActive

InitHot == Init /\ halfOpenMaxConcurrent = 1

SpecHot == InitHot /\ [][NextHot]_vars

\* ---------------------------------------------------------------- Enqueue
\* Lines 480-482: ch := db.ch under db.mu; the critical section holds this
\* one read, and is one step.
EnqueueLoad ==
    /\ epc = "idle"
    /\ nextItem <= MaxItems
    /\ mu = "free"
    /\ ech' = dbch
    /\ epc' = "send"
    /\ UNCHANGED << breakerVars, shedVars, lastTick, stopped, chans, dbch,
                    mu, nextItem,
                    deadline, consVars, monVars >>

\* Line 484: ch <- req, which waits while ch is full.
EnqueueSend ==
    /\ epc = "send"
    /\ CanSend(ech)
    /\ chans' = Send(ech, nextItem)
    /\ nextItem' = nextItem + 1
    /\ epc' = "idle"
    /\ ech' = 0
    /\ deadline' = FALSE
    /\ UNCHANGED << breakerVars, shedVars, lastTick, stopped, dbch, mu,
                    consVars, monVars >>

\* The deadline the caller set for the Enqueue in progress elapses, or the
\* caller's context is cancelled.
DeadlineElapses ==
    /\ epc = "send"
    /\ ~deadline
    /\ deadline' = TRUE
    /\ UNCHANGED << breakerVars, shedVars, lastTick, stopped, chans, dbch,
                    mu, epc, ech,
                    nextItem, consVars, monVars >>

\* ---------------------------------------------------------------- Dequeue
\* Line 491: the select evaluates db.ch, without db.mu.
DequeueLoad ==
    /\ dpc = "idle"
    /\ dch' = dbch
    /\ dpc' = "select"
    /\ UNCHANGED << breakerVars, shedVars, lastTick, stopped, chans, dbch,
                    mu, prodVars, ret,
                    delivered, monVars >>

\* Lines 491-492: case req := <-db.ch
DequeueRecv ==
    /\ dpc = "select"
    /\ CanRecv(dch)
    /\ ret' = [item |-> Head(chans[dch].buf), ok |-> TRUE]
    /\ delivered' = Append(delivered, Head(chans[dch].buf))
    /\ chans' = Recv(dch)
    /\ dpc' = "idle"
    /\ dch' = 0
    /\ UNCHANGED << breakerVars, shedVars, lastTick, stopped, dbch, mu,
                    prodVars, monVars >>

\* Lines 493-494: case <-ctx.Done()
DequeueCancel ==
    /\ dpc = "select"
    /\ ret' = [item |-> 0, ok |-> FALSE]
    /\ dpc' = "idle"
    /\ dch' = 0
    /\ UNCHANGED << breakerVars, shedVars, lastTick, stopped, chans, dbch,
                    mu, prodVars,
                    delivered, monVars >>

\* ---------------------------------------------------------------- monitor
\* The ticker fires (line 502): the monitor takes db.mu and computes
\* newSize (lines 503-517); with newSize = 0 it releases db.mu at once
\* (line 528), otherwise it makes newCh (line 521).  The number of channels
\* ever made is bounded by MaxChans.
MonitorTick ==
    /\ mpc = "wait"
    /\ mu = "free"
    /\ LET cap == chans[dbch].cap
           length == Len(chans[dbch].buf)
           size == NewSize(length, cap)
       IN IF size # 0 /\ dbch < MaxChans
          THEN /\ newCh' = dbch + 1
               /\ chans' = [chans EXCEPT ![dbch + 1] = MakeChan(size)]
               /\ mu' = "monitor"
               /\ mpc' = "drain"
               /\ lastTick' = [cap |-> cap, length |-> length, size |-> size]
          ELSE /\ lastTick' = [cap |-> cap, length |-> length, size |-> 0]
               /\ UNCHANGED << newCh, chans, mu, mpc >>
    /\ UNCHANGED << breakerVars, shedVars, stopped, dbch, prodVars, consVars,
                    hand >>

\* Line 522: for len(oldCh) > 0
MonitorDrainCheck ==
    /\ mpc = "drain"
    /\ mpc' = IF Len(chans[dbch].buf) > 0 THEN "recv" ELSE "swap"
    /\ UNCHANGED << breakerVars, shedVars, lastTick, stopped, chans, dbch,
                    mu, prodVars,
                    consVars, newCh, hand >>

\* Line 523: <-oldCh, which waits while oldCh is empty.
MonitorRecv ==
    /\ mpc = "recv"
    /\ CanRecv(dbch)
    /\ hand' = Head(chans[dbch].buf)
    /\ chans' = Recv(dbch)
    /\ mpc' = "send"
    /\ UNCHANGED << breakerVars, shedVars, lastTick, stopped, dbch, mu,
                    prodVars, consVars,
                    newCh >>

\* Line 523: newCh <- the item received, which waits while newCh is full.
MonitorSend ==
    /\ mpc = "send"
    /\ CanSend(newCh)
    /\ chans' = Send(newCh, hand)
    /\ hand' = 0
    /\ mpc' = "drain"
    /\ UNCHANGED << breakerVars, shedVars, lastTick, stopped, dbch, mu,
                    prodVars, consVars,
                    newCh >>

\* Lines 525-528: db.ch = newCh, and db.mu is released.
MonitorSwap ==
    /\ mpc = "swap"
    /\ dbch' = newCh
    /\ newCh' = 0
    /\ mu' = "free"
    /\ mpc' = "wait"
    /\ UNCHANGED << breakerVars, shedVars, lastTick, stopped, chans,
                    prodVars, consVars, hand >>

\* The owner of the buffer asks for shutdown. The sketches hold no stop
\* channel, no cancellation and no Close: nothing but the request itself
\* is recorded, and no task of the buffer ever reads it.
Shutdown ==
    /\ ~stopped
    /\ stopped' = TRUE
    /\ UNCHANGED << breakerVars, shedVars, chans, dbch, mu, prodVars,
                    consVars, monVars, lastTick >>

NextBuf ==
    \/ Shutdown
    \/ EnqueueLoad
    \/ EnqueueSend
    \/ DeadlineElapses
    \/ DequeueLoad
    \/ DequeueRecv
    \/ DequeueCancel
    \/ MonitorTick
    \/ MonitorDrainCheck
    \/ MonitorRecv
    \/ MonitorSend
    \/ MonitorSwap

SpecBuf == InitBuf /\ [][NextBuf]_vars

\* ------------------------------------------------------------------ claims
\* The call recorded in hist has returned.
Returned == hist.op # "none" /\ hist.ret # "pending" /\ pc[hist.proc] \in {"idle", "calling"}

\* Calls admitted as trials (by the Allow that left Open, or in HalfOpen)
\* and not yet reported.
OutstandingTrials == {p \in Procs : pc[p] = "calling" /\ admitted[p] # StateClosed}

\* Calls that reserved a trial slot in HalfOpen and are not yet reported.
ReservedTrials == {p \in Procs : pc[p] = "calling" /\ admitted[p] = StateHalfOpen}

C2_TrialsWithinLimit ==
    state = StateHalfOpen => Cardinality(OutstandingTrials) <= halfOpenMaxConcurrent

\* C3: a call of Allow made, and running, while the breaker has been Open
\* for less than resetTimeout changes neither the state nor the two
\* HalfOpen counters nor lastOpen, and does not admit the call.
C3_OpenAllowRefuses ==
    [][\A p \in Procs :
          (fresh[p] /\ pc'[p] # pc[p])
          => /\ state' = state
             /\ successes' = successes
             /\ inFlightTrials' = inFlightTrials
             /\ sinceLastOpen' = sinceLastOpen
             /\ pc'[p] \notin {"calling", "r_switch"}]_vars

\* C4: with calls made one at a time, once successThresh Report(true)
\* calls have been made in HalfOpen with no Report(false) among them, the
\* breaker is no longer HalfOpen.
C4_SuccessesClose ==
    (Quiescent /\ okStreak >= successThresh) => state # StateHalfOpen

\* C5: with calls made one at a time, a Report(false) made in HalfOpen
\* leaves the breaker Open with lastOpen set to the time of the report.
C5_FailureReopens ==
    (Returned /\ hist.op = "report" /\ ~hist.success
       /\ hist.pre.state = StateHalfOpen)
    => (state = StateOpen /\ sinceLastOpen = 0 /\ sinceOpened = 0)

\* C6: with calls made one at a time, an Allow made when the breaker is
\* Open and resetTimeout has elapsed since lastOpen returns true and
\* leaves the breaker HalfOpen with both HalfOpen counters at 0.
C6_HalfOpenOnTimeout ==
    (Returned /\ hist.op = "allow" /\ hist.pre.state = StateOpen
       /\ hist.pre.sinceLastOpen >= resetTimeout)
    => /\ hist.ret = "true"
       /\ pc[hist.proc] = "calling"
       /\ state = StateHalfOpen
       /\ successes = 0
       /\ inFlightTrials = 0

C6_Witness ==
    /\ Returned /\ hist.op = "allow" /\ hist.pre.state = StateOpen
    /\ hist.pre.sinceLastOpen >= resetTimeout
    /\ hist.pre.successes > 0
    /\ hist.pre.inFlightTrials > 0
    /\ state = StateHalfOpen

\* C7: the window sum never counts a failure recorded WindowSize or more
\* ticks ago: it is at most the number of failures recorded in the current
\* tick interval and the WindowSize - 1 before it, so it is 0 after
\* WindowSize ticks without a failure, whatever calls were or were not made.
C7_OldFailuresAgeOut ==
    /\ Sum <= SumSeq(recent)
    /\ Len(recent) = WindowSize

C7_Witness ==
    /\ \A p \in Procs : pc[p] = "idle"
    /\ state = StateOpen
    /\ SumSeq(recent) = 0
    /\ Sum = 0

\* C8: a Report that switched on HalfOpen never changes a state that
\* another Report has since stored: a late success does not close a
\* breaker already re-opened, and a late failure does not re-open a breaker
\* already closed.
C8_ReportStoresObservedState ==
    [][\A p \in Procs :
          (pc[p] \in {"r_close", "r_reopen"} /\ pc'[p] # pc[p]
             /\ state # StateHalfOpen)
          => state' = state]_vars

\* C9: with calls made one at a time, in HalfOpen inFlightTrials equals
\* the number of calls that reserved a trial slot and are not yet reported.
C9_InFlightCountsReservedTrials ==
    (Quiescent /\ state = StateHalfOpen)
    => inFlightTrials = Cardinality(ReservedTrials)

\* C10: the breaker starts Closed; with calls made one at a time, an Allow
\* made in Closed returns true and changes nothing, and a Report(true)
\* made in Closed leaves the state, the window, its index, lastOpen and
\* both HalfOpen counters as they were.
C10_ClosedInv ==
    /\ (Returned /\ hist.op = "allow" /\ hist.pre.state = StateClosed)
       => (hist.ret = "true" /\ pc[hist.proc] = "calling" /\ Snapshot = hist.pre)
    /\ (hist.op = "report" /\ hist.success /\ hist.pre.state = StateClosed)
       => Snapshot = hist.pre

C10_ClosedIsTransparent == (state = StateClosed) /\ []C10_ClosedInv

C10_Witness ==
    /\ Returned /\ hist.op = "report" /\ hist.success
    /\ hist.pre.state = StateClosed
    /\ SumSeq(hist.pre.buckets) > 0

\* The edges of the state diagram (lines 19-23).
Edges == {<< StateClosed, StateOpen >>, << StateOpen, StateHalfOpen >>,
          << StateHalfOpen, StateClosed >>, << StateHalfOpen, StateOpen >>}

\* C11: with calls made one at a time, the Report that takes the breaker
\* from HalfOpen to Closed leaves the failure window empty.
C11_CloseClearsWindow ==
    (Returned /\ hist.op = "report" /\ hist.pre.state = StateHalfOpen
       /\ state = StateClosed)
    => Sum = 0

\* C12: every change of the breaker state follows an edge of the state
\* diagram: Closed to Open, Open to HalfOpen, HalfOpen to Closed or
\* HalfOpen to Open.
C12_DocumentedEdgesOnly ==
    [][state' # state => << state, state' >> \in Edges]_vars

C14_PassiveAdmitsIffRoom ==
    /\ Len(requests) <= RequestsCap
    /\ accepted.mode = "passive"
       => /\ accepted.ret = (Len(accepted.pre) < RequestsCap)
          /\ accepted.post = IF accepted.ret
                             THEN accepted.pre \o << accepted.req >>
                             ELSE accepted.pre

C14_Witness ==
    /\ accepted.mode = "passive"
    /\ Len(accepted.pre) = RequestsCap
    /\ ~accepted.ret
    /\ requests = Tail(accepted.pre)

\* C15: active shedding admits a connection exactly when the latest sample
\* whose flag the monitor has stored was not above maxCPU, whatever the
\* monitor has sampled since without storing.
C15_ActiveFollowsLatestSample ==
    accepted.mode = "active" => accepted.ret = ~accepted.over

C15_Witness ==
    /\ accepted.mode = "active"
    /\ accepted.over
    /\ ~accepted.ret
    /\ accepted.post = accepted.pre
    /\ Len(accepted.pre) < RequestsCap
    /\ mon = "store"
    /\ cpu <= maxCPU

\* The monitor holds db.mu and is moving the items of db.ch to newCh.
Draining == mpc \in {"drain", "recv", "send", "swap"}

\* C16: the capacity of every channel the buffer makes, and so of db.ch,
\* lies between minSize and maxSize.
C16_CapacityWithinLimits ==
    /\ \A c \in ChanIds :
          chans[c] # NoChan => (minSize <= chans[c].cap /\ chans[c].cap <= maxSize)
    /\ chans[dbch] # NoChan

C16_Witness ==
    /\ dbch = MaxChans
    /\ chans[1].cap = minSize
    /\ chans[2].cap > minSize
    /\ chans[dbch].cap = maxSize
    /\ Len(chans[dbch].buf) = maxSize
    /\ mpc = "wait"

\* C17: the items come out in the order the producer enqueued them, none
\* dropped and none twice: the i-th item received is the i-th item enqueued.
C17_FifoAcrossResize ==
    \A i \in 1..Len(delivered) : delivered[i] = i

\* C18: while the monitor is draining db.ch, no Enqueue sends to that
\* channel and no Dequeue receives from it.
C18_NoAccessWhileDraining ==
    [][(Draining /\ mpc' = mpc) => chans'[dbch] = chans[dbch]]_vars

\* C19: an Enqueue whose deadline has elapsed, or whose context has been
\* cancelled, does not go on waiting: it has a step to take that returns
\* (the send of line 484 is the only step that ends Enqueue).
C19_EnqueueNotBlockedPastDeadline ==
    (epc = "send" /\ deadline) => ENABLED EnqueueSend

\* C20: a Dequeue that returns ok = true returns the head of the channel
\* it waited on and removes exactly that item; one that returns ok = false
\* returns the zero item and removes nothing.
C20_DequeueTakesOneOrNone ==
    [][(dpc = "select" /\ dpc' = "idle")
       => \/ /\ ret'.ok
             /\ chans[dch].buf # << >>
             /\ ret'.item = Head(chans[dch].buf)
             /\ chans' = [chans EXCEPT ![dch].buf = Tail(@)]
             /\ delivered' = delivered \o << ret'.item >>
          \/ /\ ~ret'.ok
             /\ ret'.item = 0
             /\ chans' = chans
             /\ delivered' = delivered]_vars

C20_Witness ==
    /\ dpc = "idle"
    /\ ret = [item |-> 0, ok |-> FALSE]
    /\ delivered = << 1, 2 >>
    /\ chans[dbch].buf = << 3 >>

\* The step in which the monitor's ticker fires: the monitor was waiting and
\* either records what it read or starts a resize.
MonitorTicks == mpc = "wait" /\ (lastTick' # lastTick \/ mpc' = "drain")

\* C21: the monitor makes a larger channel only at a tick whose usage is
\* strictly above growPct, and a smaller one only at a tick whose usage is
\* strictly below shrinkPct.
C21_ResizeOnlyOutsideBand ==
    [][(mpc = "wait" /\ mpc' = "drain") =>
          LET cap == chans[dbch].cap
              length == Len(chans[dbch].buf)
              made == chans'[newCh'].cap
          IN /\ made # cap
             /\ made > cap => length * 100 > growPct * cap
             /\ made < cap => length * 100 < shrinkPct * cap]_vars

\* A shrink has started, from a channel the tick found empty.
C21_Witness ==
    /\ mpc = "drain"
    /\ chans[newCh].cap < chans[dbch].cap
    /\ lastTick.length = 0

\* C22: a growth makes a channel of min(maxSize, 2 * cap), a shrink one of
\* max(minSize, cap / 2) with integer halving, so one tick never more than
\* doubles the capacity and never takes it below its integer half.
C22_ResizeDoublesOrHalves ==
    [][(mpc = "wait" /\ mpc' = "drain") =>
          LET cap == chans[dbch].cap
              length == Len(chans[dbch].buf)
              made == chans'[newCh'].cap
              doubled == IF 2 * cap < maxSize THEN 2 * cap ELSE maxSize
              halved == IF cap \div 2 > minSize THEN cap \div 2 ELSE minSize
          IN /\ made = IF length * 100 > growPct * cap THEN doubled
                       ELSE halved
             /\ made <= 2 * cap
             /\ made >= cap \div 2]_vars

\* A shrink from the largest size has started, to a size above the
\* smallest.
C22_Witness ==
    /\ mpc = "drain"
    /\ chans[dbch].cap = maxSize
    /\ chans[newCh].cap > minSize
    /\ chans[newCh].cap < maxSize

\* C23: a tick that reads a usage between shrinkPct and growPct, the
\* thresholds included, or a usage outside them with the capacity already at
\* the size limit on that side, changes nothing: the channel of the buffer,
\* its capacity, its items and their order stay as they were.
C23_TickInsideBandIsNoOp ==
    [][(/\ MonitorTicks
        /\ LET cap == chans[dbch].cap
               length == Len(chans[dbch].buf)
           IN \/ /\ shrinkPct * cap <= length * 100
                 /\ length * 100 <= growPct * cap
              \/ length * 100 > growPct * cap /\ cap >= maxSize
              \/ length * 100 < shrinkPct * cap /\ cap <= minSize)
       => UNCHANGED << dbch, chans, mu, mpc, newCh, hand >>]_vars

\* The latest tick read a usage of exactly growPct on a channel that could
\* still grow, and made no channel.
C23_Witness ==
    /\ lastTick.length * 100 = growPct * lastTick.cap
    /\ lastTick.cap \in minSize..(maxSize - 1)
    /\ lastTick.size = 0
    /\ dbch < MaxChans
    /\ mpc = "wait"

\* The channels some task still holds: db.ch, the monitor's newCh while it
\* resizes, the ch an Enqueue has read and the channel a Dequeue waits on.
HeldChans ==
    {dbch} \cup (IF Draining THEN {newCh} ELSE {})
           \cup (IF epc = "send" THEN {ech} ELSE {})
           \cup (IF dpc = "select" THEN {dch} ELSE {})

RECURSIVE LenSum(_)
LenSum(cs) ==
    IF cs = {} THEN 0
    ELSE LET c == CHOOSE x \in cs : TRUE
         IN Len(chans[c].buf) + LenSum(cs \ {c})

\* Items accepted by Enqueue and not yet returned by Dequeue that a task
\* can still reach: those in the held channels and the one the monitor has
\* received from oldCh and not yet sent to newCh.
Buffered == LenSum(HeldChans) + (IF hand # 0 THEN 1 ELSE 0)

\* C24: the items accepted by Enqueue and not yet dequeued, counted over
\* every channel a producer, a consumer or the monitor still holds, never
\* number more than maxSize.
C24_BufferedWithinMaxSize == Buffered <= maxSize

\* C26: once shutdown has been requested the periodic monitor fires no more,
\* so no further tick is taken and no resize started, and a producer waiting
\* in Enqueue is not left blocked: it has a step to take that returns.
C26_ShutdownStopsAndWakes ==
    [][stopped => /\ ~MonitorTicks
                  /\ epc = "send" => ENABLED EnqueueSend]_vars

\* C28: under any interleaving of Allow and Report, inFlightTrials is never
\* negative and never above halfOpenMaxConcurrent, and successes is never
\* negative.
C28_CountersWithinRange ==
    /\ inFlightTrials >= 0
    /\ inFlightTrials <= halfOpenMaxConcurrent
    /\ successes >= 0

\* C30: a Report, of a success or of a failure, made and running while the
\* breaker has been Open for less than resetTimeout changes neither the
\* state nor lastOpen nor the window nor the two HalfOpen counters, and
\* returns from its call of Allow without going on to its switch.
C30_OpenReportChangesNothing ==
    [][\A p \in Procs :
          (fresh[p] /\ ctx[p] = "report" /\ pc'[p] # pc[p])
          => /\ UNCHANGED << state, sinceLastOpen, buckets, idx >>
             /\ UNCHANGED << successes, inFlightTrials >>
             /\ pc'[p] # "r_switch"]_vars

\* C29: when every call Allow permits is reported, a breaker that is
\* HalfOpen does not stay HalfOpen for ever: it gets to Closed or to Open.
C29_HalfOpenIsLeft ==
    (state = StateHalfOpen) ~> (state \in {StateClosed, StateOpen})

\* C27: with calls made one at a time, a Report made without a matching
\* Allow() == true is a no-op: when it has returned, the state, lastOpen,
\* the window and the two HalfOpen counters are as they were before it.
C27_UnmatchedReportIsNoOp ==
    (hist.op = "unmatched" /\ pc[hist.proc] = "idle") => Snapshot = hist.pre

\* The number of steps a caller at position l has left, at most, before its
\* call of Allow or Report returns.
Rank(l) ==
    CASE l \in {"idle", "calling"} -> 0
      [] l = "r_dec" -> 1
      [] l = "r_defer" -> 2
      [] l \in {"r_lastopen", "r_relastopen", "r_close"} -> 3
      [] l \in {"r_open", "r_reopen", "r_addsucc"} -> 4
      [] l = "r_sum" -> 5
      [] l = "r_inc" -> 6
      [] l = "r_switch" -> 7
      [] l \in {"a_add", "a_infl_store"} -> 8
      [] l \in {"a_half", "a_succ_store"} -> 9
      [] l = "a_half_store" -> 10
      [] l = "a_open" -> 11

C31_DrainNeverWaits ==
    /\ mpc = "recv" => ENABLED MonitorRecv
    /\ mpc = "send" => ENABLED MonitorSend

\* C32: an item whose Enqueue has returned is never left in a channel that
\* no Dequeue can come to receive from: every channel that holds an item
\* is db.ch, or is still held by the monitor or by a waiting Dequeue.
C32_NoItemStranded ==
    \A c \in ChanIds :
       chans[c].buf # << >> =>
          \/ c = dbch
          \/ Draining /\ c = newCh
          \/ dpc = "select" /\ c = dch

\* C33: a Dequeue that waits with its context not cancelled can receive as
\* soon as the buffer holds an item, also after the monitor has swapped the
\* channel while it waited.
C33_WaitingDequeueSeesItems ==
    (dpc = "select" /\ chans[dbch].buf # << >>) => ENABLED DequeueRecv

====
